---- MODULE Spec2Model ----
(***************************************************************************)
(* rust-slack-bot: the websocket dispatcher loop (src/src/slack.rs) and    *)
(* the executor pipeline (src/src/executor.rs).                            *)
(*                                                                         *)
(* A Rust &str / String is a sequence of one-character strings.  All the   *)
(* text of the model is ASCII, so byte offsets and character offsets       *)
(* agree.  A Rust Option<usize> is an integer, None being NoneIdx.         *)
(***************************************************************************)
EXTENDS Integers, Sequences, FiniteSets, TLC

(***************************************************************************)
(* Bounds of the model                                                     *)
(***************************************************************************)
\* lines of a block handed to parse_code_block
MaxLines == 3
\* pieces of a chat message handed to new_from_slack / execute_from_slack_message
MaxPieces == 4
\* frames the dispatcher loop reads in one run
MaxFrames == 2
\* characters of a payload handed to prepare_command
MaxPayload == 3

(***************************************************************************)
(* Text literals                                                           *)
(***************************************************************************)
NoneIdx == -1

\* The grave accent U+0060 cannot be written in a TLA+ string; BQ stands for it.
BQ == "<U+0060>"

marker == <<BQ, BQ, BQ>>

S_executor == <<"e", "x", "e", "c", "u", "t", "o", "r">>

S_echo == <<"e", "c", "h", "o">>

S_input == <<"i", "n", "p", "u", "t">>

\* The characters of the Unicode property White_Space.  Those a TLA+ string
\* cannot hold are written <U+hhhh>, as BQ is.
WhiteSpace ==
    {"\t", "\n", "<U+000B>", "\f", "\r", " ", "<U+0085>", "<U+00A0>",
     "<U+1680>", "<U+2000>", "<U+2001>", "<U+2002>", "<U+2003>", "<U+2004>",
     "<U+2005>", "<U+2006>", "<U+2007>", "<U+2008>", "<U+2009>", "<U+200A>",
     "<U+2028>", "<U+2029>", "<U+202F>", "<U+205F>", "<U+3000>"}

\* char::is_whitespace
IsWhitespace(c) == c \in WhiteSpace

(***************************************************************************)
(* str methods used by the executor                                        *)
(***************************************************************************)
\* the part of s from the 0-based offset `from` to its end: &s[from..]
SliceFrom(s, from) == SubSeq(s, from + 1, Len(s))

\* &s[from..to], 0-based, `to` exclusive
Slice(s, from, to) == SubSeq(s, from + 1, to)

\* s.starts_with(p)
StartsWith(s, p) == Len(s) >= Len(p) /\ SubSeq(s, 1, Len(p)) = p

\* s.find(p): 0-based offset of the first occurrence of p in s, or None
Find(s, p) ==
    LET hits == {i \in 0..(Len(s) - Len(p)) : SubSeq(s, i + 1, i + Len(p)) = p}
    IN  IF hits = {} THEN NoneIdx
        ELSE CHOOSE i \in hits : \A j \in hits : i <= j

\* s.trim_start()
TrimStart(s) ==
    LET keep == {i \in 1..Len(s) : ~IsWhitespace(s[i])}
    IN  IF keep = {} THEN <<>>
        ELSE SubSeq(s, CHOOSE i \in keep : \A j \in keep : i <= j, Len(s))

\* s.trim_end()
TrimEnd(s) ==
    LET keep == {i \in 1..Len(s) : ~IsWhitespace(s[i])}
    IN  IF keep = {} THEN <<>>
        ELSE SubSeq(s, 1, CHOOSE i \in keep : \A j \in keep : i >= j)

\* s.trim()
Trim(s) == TrimEnd(TrimStart(s))

\* s.trim_start_matches(c): every leading c is removed
TrimStartMatches(s, c) ==
    LET keep == {i \in 1..Len(s) : s[i] # c}
    IN  IF keep = {} THEN <<>>
        ELSE SubSeq(s, CHOOSE i \in keep : \A j \in keep : i <= j, Len(s))

\* s.split(c).collect::<Vec<&str>>(): never empty; "" splits to [""]
RECURSIVE Split(_, _)
Split(s, c) ==
    LET at == Find(s, <<c>>)
    IN  IF at = NoneIdx THEN <<s>>
        ELSE <<Slice(s, 0, at)>> \o Split(SliceFrom(s, at + 1), c)

\* one line of str::lines(): a trailing "\r" goes with the line ending
StripCr(s) ==
    IF Len(s) > 0 /\ s[Len(s)] = "\r" THEN SubSeq(s, 1, Len(s) - 1) ELSE s

\* s.lines(): split at "\n", each ending (with its "\r") removed; a final
\* empty piece after the last "\n" is not a line, and "" has no lines
RECURSIVE Lines(_)
Lines(s) ==
    IF s = <<>> THEN <<>>
    ELSE LET at == Find(s, <<"\n">>)
         IN  IF at = NoneIdx THEN <<s>>
             ELSE <<StripCr(Slice(s, 0, at))>> \o Lines(SliceFrom(s, at + 1))

\* vec.pop(): <<the vector left, the element popped or None>>
NoneStr == <<"<None>">>

Pop(v) ==
    IF Len(v) = 0 THEN <<v, NoneStr>>
    ELSE <<SubSeq(v, 1, Len(v) - 1), v[Len(v)]>>

(***************************************************************************)
(* Results.  A Rust Result / panic is a record with a tag:                 *)
(*   Ok                     the ExecutorInput {name, input}                *)
(*   SplitFailure           ParseCodeBlockError::SplitFailure(err)         *)
(*   ExtractCodeBlockError  ExecutorInputError::ExtractCodeBlockError(err) *)
(*   Panic                  the thread panicked (unimplemented!())         *)
(* `parsed` records whether parse_code_block produced the value.           *)
(***************************************************************************)
OkInput(name, input) ==
    [tag |-> "Ok", name |-> name, input |-> input, err |-> <<>>, parsed |-> TRUE]

SplitFailure(line) ==
    [tag |-> "SplitFailure", name |-> <<>>, input |-> <<>>, err |-> line,
     parsed |-> TRUE]

ExtractCodeBlockError(message) ==
    [tag |-> "ExtractCodeBlockError", name |-> <<>>, input |-> <<>>,
     err |-> message, parsed |-> FALSE]

PanicUnimplemented ==
    [tag |-> "Panic", name |-> <<>>, input |-> <<>>, err |-> <<>>, parsed |-> TRUE]

\* ExecutorInput::default()
DefaultInput == OkInput(<<>>, <<>>)

(***************************************************************************)
(* ExecutorInput::parse_code_block                                         *)
(***************************************************************************)
\* the body of `if line.starts_with('#')`: one directive line applied to result
parse_directive(result, line) ==
    LET raw_line == Trim(TrimStartMatches(line, "#"))
        arr0     == Split(raw_line, ":")
        p1       == Pop(arr0)
        value    == p1[2]
        p2       == Pop(p1[1])
        key      == p2[2]
    IN  IF value = NoneStr THEN SplitFailure(raw_line)
        ELSE IF key = NoneStr THEN SplitFailure(raw_line)
        ELSE IF key = S_executor THEN [result EXCEPT !.name = Trim(value)]
        ELSE PanicUnimplemented

\* mutant: the lines of the payload are joined with a line break
parse_line_separated(result, line) ==
    IF StartsWith(line, <<"#">>) THEN parse_directive(result, line)
    ELSE [result EXCEPT !.input = result.input \o line \o <<"\n">>]

\* one iteration of `for line in vec_message`
parse_line(result, line) ==
    IF StartsWith(line, <<"#">>) THEN parse_directive(result, line)
    ELSE [result EXCEPT !.input = result.input \o line]

\* the loop; `?` and the panic leave it at once
RECURSIVE parse_lines(_, _)
parse_lines(result, vec_message) ==
    IF vec_message = <<>> \/ result.tag # "Ok" THEN result
    ELSE parse_lines(parse_line(result, Head(vec_message)), Tail(vec_message))

parse_code_block(message) ==
    LET ls          == Lines(message)
        vec_message == [i \in 1..Len(ls) |-> Trim(ls[i])]
    IN  parse_lines(DefaultInput, vec_message)

(***************************************************************************)
(* ExecutorInput::extract_code_block_from_slack_message, ::new_from_slack  *)
(***************************************************************************)
\* s.rfind(p): 0-based offset of the last occurrence of p in s, or None
FindLast(s, p) ==
    LET hits == {i \in 0..(Len(s) - Len(p)) : SubSeq(s, i + 1, i + Len(p)) = p}
    IN  IF hits = {} THEN NoneIdx
        ELSE CHOOSE i \in hits : \A j \in hits : i >= j

\* mutant: the block runs to the last marker of the message (rfind)
extract_code_block_to_last_marker(message) ==
    LET first == Find(message, marker)
        start == first + Len(marker)
        end   == FindLast(SliceFrom(message, start), marker)
    IN  IF first = NoneIdx THEN NoneStr
        ELSE IF end = NoneIdx THEN NoneStr
        ELSE Slice(message, start, start + end)

\* Option<&str>: the block, or NoneStr
extract_code_block_from_slack_message(message) ==
    LET first == Find(message, marker)
        start == first + Len(marker)
        end   == Find(SliceFrom(message, start), marker)
    IN  IF first = NoneIdx THEN NoneStr
        ELSE IF end = NoneIdx THEN NoneStr
        ELSE Slice(message, start, start + end)

new_from_slack(message) ==
    LET result == extract_code_block_from_slack_message(message)
    IN  IF result = NoneStr THEN ExtractCodeBlockError(message)
        ELSE parse_code_block(result)

(***************************************************************************)
(* Executor::prepare_command: Handlebars, default (non-strict) registry.   *)
(* The template language is modelled for text and for one-name             *)
(* expressions: {{ name }} is replaced by the HTML-escaped value of the    *)
(* field, {{{ name }}} by the value itself; the data has the one field     *)
(* "input", any other name renders as the empty string; an expression      *)
(* without its closing braces, or with no name, is a TemplateError.        *)
(***************************************************************************)
open2 == <<"{", "{">>

close2 == <<"}", "}">>

close3 == <<"}", "}", "}">>

\* handlebars::html_escape, one character
html_escape_char(c) ==
    CASE c = "<"  -> <<"&", "l", "t", ";">>
      [] c = ">"  -> <<"&", "g", "t", ";">>
      [] c = "\"" -> <<"&", "q", "u", "o", "t", ";">>
      [] c = "&"  -> <<"&", "a", "m", "p", ";">>
      [] c = "'"  -> <<"&", "#", "x", "2", "7", ";">>
      [] c = BQ   -> <<"&", "#", "x", "6", "0", ";">>
      [] c = "="  -> <<"&", "#", "x", "3", "D", ";">>
      [] OTHER    -> <<c>>

RECURSIVE html_escape(_)
html_escape(data) ==
    IF data = <<>> THEN <<>>
    ELSE html_escape_char(Head(data)) \o html_escape(Tail(data))

RenderOk(text) == [tag |-> "Ok", text |-> text]

TemplateError == [tag |-> "TemplateError", text |-> <<>>]

\* json!({ "input": input }): the value of a field of the data
field_value(name, input) == IF name = S_input THEN input ELSE <<>>

\* register_template_string + render
RECURSIVE render(_, _)
render(template, input) ==
    LET at     == Find(template, open2)
        triple == at + 2 < Len(template) /\ template[at + 3] = "{"
        closer == IF triple THEN close3 ELSE close2
        from   == at + (IF triple THEN 3 ELSE 2)
        end    == Find(SliceFrom(template, from), closer)
        name   == Trim(Slice(template, from, from + end))
        value  == field_value(name, input)
        rest   == render(SliceFrom(template, from + end + Len(closer)), input)
    IN  IF at = NoneIdx THEN RenderOk(template)
        ELSE IF end = NoneIdx \/ name = <<>> THEN TemplateError
        ELSE IF rest.tag # "Ok" THEN rest
        ELSE RenderOk(Slice(template, 0, at)
                      \o (IF triple THEN value ELSE html_escape(value))
                      \o rest.text)

prepare_command(command, input) == render(command, input)

(***************************************************************************)
(* Executor::execute.  What /bin/bash does with the command is the         *)
(* environment's: sh is "exit0" (status 0, the output valid UTF-8),         *)
(* "exit0_invalid_utf8" (status 0, but read() is Err because the output is *)
(* not UTF-8), "nonzero" (duct's read() is Err on a non-zero exit status)  *)
(* or "spawn_failed" (read() is Err).  read() is unwrapped, so an Err      *)
(* panics.                                                                 *)
(*   tag      "Ok" | "TemplateError" | "Panic"                             *)
(*   command  the command line handed to /bin/bash -c, or NoneStr          *)
(*   status   what the shell did with it, "None" if it was not run         *)
(***************************************************************************)
ShellOutcomes == {"exit0", "exit0_invalid_utf8", "nonzero", "spawn_failed"}

execute(executor, input, sh) ==
    LET command == prepare_command(executor, input.input)
    IN  IF command.tag # "Ok"
        THEN [tag |-> "TemplateError", command |-> NoneStr, status |-> "None"]
        ELSE IF sh = "exit0"
        THEN [tag |-> "Ok", command |-> command.text, status |-> sh]
        ELSE [tag |-> "Panic", command |-> command.text, status |-> sh]

(***************************************************************************)
(* Executors: a HashMap<String, Executor> is a function from names to      *)
(* command templates.                                                      *)
(***************************************************************************)
\* the template of Executors::default
EchoTemplate == S_echo \o <<" ", "{", "{", " ">> \o S_input \o <<" ", "}", "}">>

\* Executors::default()
DefaultExecutors == (S_echo :> EchoTemplate)

\* an executors file with no entries
EmptyExecutors == [n \in {} |-> <<>>]

(***************************************************************************)
(* Executors::execute_from_slack_message                                   *)
(*   tag      "Ok" | "NoAvailableExecutors" | "NoSuchExecutors" |          *)
(*            "ExtractCodeBlockError" | "SplitFailure" | "Panic"           *)
(*   err      the string the error carries                                 *)
(*   parsed   parse_code_block was reached                                 *)
(*   executed the dropped result of executor.execute: "Ok", "TemplateError";*)
(*            "None" if it was not called; the shell outcome whose Err was *)
(*            unwrapped ("exit0_invalid_utf8", "nonzero", "spawn_failed")  *)
(*            if it panicked                                               *)
(*   command  the command line handed to /bin/bash -c, or NoneStr          *)
(***************************************************************************)
RunResult(tag, err, parsed, executed, command) ==
    [tag |-> tag, err |-> err, parsed |-> parsed, executed |-> executed,
     command |-> command]

\* mutant: the message is parsed before the registry is looked at
execute_from_slack_message_parse_first(registry, message, sh) ==
    LET input == new_from_slack(message)
        run   == execute(registry[input.name], input, sh)
    IN  IF input.tag # "Ok"
        THEN RunResult(input.tag, input.err, input.parsed, "None", NoneStr)
        ELSE IF DOMAIN registry = {}
        THEN RunResult("NoAvailableExecutors", <<>>, TRUE, "None", NoneStr)
        ELSE IF input.name \notin DOMAIN registry
        THEN RunResult("NoSuchExecutors", input.name, TRUE, "None", NoneStr)
        ELSE IF run.tag = "Panic"
        THEN RunResult("Panic", <<>>, TRUE, run.status, run.command)
        ELSE RunResult("Ok", <<>>, TRUE, run.tag, run.command)

\* mutant: a name that is not in the registry is skipped without an error
execute_from_slack_message_skip_unknown(registry, message, sh) ==
    LET input == new_from_slack(message)
        run   == execute(registry[input.name], input, sh)
    IN  IF DOMAIN registry = {}
        THEN RunResult("NoAvailableExecutors", <<>>, FALSE, "None", NoneStr)
        ELSE IF input.tag # "Ok"
        THEN RunResult(input.tag, input.err, input.parsed, "None", NoneStr)
        ELSE IF input.name \notin DOMAIN registry
        THEN RunResult("Ok", <<>>, TRUE, "None", NoneStr)
        ELSE IF run.tag = "Panic"
        THEN RunResult("Panic", <<>>, TRUE, run.status, run.command)
        ELSE RunResult("Ok", <<>>, TRUE, run.tag, run.command)

execute_from_slack_message(executors, message, sh) ==
    LET input == new_from_slack(message)
        run   == execute(executors[input.name], input, sh)
    IN  IF DOMAIN executors = {}
        THEN RunResult("NoAvailableExecutors", <<>>, FALSE, "None", NoneStr)
        ELSE IF input.tag # "Ok"
        THEN RunResult(input.tag, input.err, input.parsed, "None", NoneStr)
        ELSE IF input.name \notin DOMAIN executors
        THEN RunResult("NoSuchExecutors", input.name, TRUE, "None", NoneStr)
        ELSE IF run.tag = "Panic"
        THEN RunResult("Panic", <<>>, TRUE, run.status, run.command)
        ELSE RunResult("Ok", <<>>, TRUE, run.tag, run.command)

(***************************************************************************)
(* State                                                                   *)
(***************************************************************************)
VARIABLES
    pc,          \* where listen_websocket is: "read", "dispatch", "execute",
                 \* "post", "ack"; "panicked" and "closed" (it returned Err) end it
    cur,         \* the frame read by socket.read() and being handled
    received,    \* history: the header of every frame read, in order
    acks,        \* history: every socket.send of an acknowledgement, in order
    execs,       \* history: every call of execute_from_slack_message
    posts,       \* history: every call of post_message
    executors,   \* the Executors registry handed to listen_websocket
    message,     \* the text a function of executor.rs is applied to
    parts,       \* the lines or pieces `message` was put together from
    result,      \* what the function returned
    phase        \* "input" before the function is applied, its name after

vars == <<pc, cur, received, acks, execs, posts, executors, message,
          parts, result, phase>>

dispatcher_vars == <<pc, cur, received, acks, execs, posts>>

function_vars == <<message, parts, result, phase>>

NoResult == [tag |-> "None"]

\* the dispatcher before listen_websocket is called
DispatcherIdle ==
    /\ pc = "idle"
    /\ cur = [ws |-> "none"]
    /\ received = <<>>
    /\ acks = <<>>
    /\ execs = <<>>
    /\ posts = <<>>

(***************************************************************************)
(* Inputs of the functions of executor.rs                                  *)
(***************************************************************************)
\* the concatenation of the strings of a sequence
RECURSIVE Concat(_)
Concat(ss) == IF ss = <<>> THEN <<>> ELSE Head(ss) \o Concat(Tail(ss))

\* the lines of a block, a "\n" between two lines
RECURSIVE JoinLines(_)
JoinLines(ls) ==
    IF ls = <<>> THEN <<>>
    ELSE IF Len(ls) = 1 THEN ls[1]
    ELSE ls[1] \o <<"\n">> \o JoinLines(Tail(ls))

SeqsUpTo(S, n) == UNION {[1..k -> S] : k \in 0..n}

\* the lines blocks are made of: text lines, executor directives, directives
\* with another key, directives without a colon
LineSet ==
    {
     \* ""
     <<>>,
     \* " x"
     <<" ", "x">>,
     \* "y;"
     <<"y", ";">>,
     \* ": a "
     <<":", " ", "a", " ">>,
     \* "executor: a "
     <<"e", "x", "e", "c", "u", "t", "o", "r", ":", " ", "a", " ">>,
     \* "# executor: a "
     <<"#", " ", "e", "x", "e", "c", "u", "t", "o", "r", ":", " ", "a", " ">>,
     \* "# executor: psql"
     <<"#", " ", "e", "x", "e", "c", "u", "t", "o", "r", ":", " ", "p", "s", "q", "l">>,
     \* " ##executor:b"
     <<" ", "#", "#", "e", "x", "e", "c", "u", "t", "o", "r", ":", "b">>,
     \* "# executor: c:executor:d"
     <<"#", " ", "e", "x", "e", "c", "u", "t", "o", "r", ":", " ", "c", ":", "e", "x", "e", "c", "u", "t", "o", "r", ":", "d">>,
     \* "# executor: b:c"
     <<"#", " ", "e", "x", "e", "c", "u", "t", "o", "r", ":", " ", "b", ":", "c">>,
     \* "# k: v"
     <<"#", " ", "k", ":", " ", "v">>,
     \* "# executor : a"
     <<"#", " ", "e", "x", "e", "c", "u", "t", "o", "r", " ", ":", " ", "a">>,
     \* "# executor psql"
     <<"#", " ", "e", "x", "e", "c", "u", "t", "o", "r", " ", "p", "s", "q", "l">>,
     \* "#"
     <<"#">>,
     \* " ## k "
     <<" ", "#", "#", " ", "k", " ">>,
     \* "\fz" and a vertical tab
     <<"\f", "z", "<U+000B>">>
    }

\* the pieces of a chat message
MessagePieces ==
    {marker,
     <<BQ>>,
     <<"h", "i">>,
     <<"#", " ">> \o S_executor \o <<":", " ">> \o S_echo \o <<"\n">>,
     <<"#", " ">> \o S_executor \o <<":", " ", "a", "\n">>,
     <<"#", "k", "\n">>,
     <<"#", " ", "k", ":", " ", "v", "\n">>}

\* a template with an expression that is never closed
BrokenTemplate == <<"r", "u", "n", " ", "{", "{", " ">> \o S_input

BrokenExecutors == (<<"a">> :> BrokenTemplate)

Registries == {EmptyExecutors, DefaultExecutors, BrokenExecutors}

(***************************************************************************)
(* SpecParse: ExecutorInput::parse_code_block applied to a block           *)
(***************************************************************************)
InitParse ==
    /\ DispatcherIdle
    /\ executors = DefaultExecutors
    /\ parts \in SeqsUpTo(LineSet, MaxLines)
    /\ message = JoinLines(parts)
    /\ result = NoResult
    /\ phase = "input"

ApplyParseCodeBlock ==
    /\ phase = "input"
    /\ result' = parse_code_block(message)
    /\ phase' = "parse_code_block"
    /\ UNCHANGED <<dispatcher_vars, executors, message, parts>>

NextParse == ApplyParseCodeBlock

SpecParse == InitParse /\ [][NextParse]_vars

(***************************************************************************)
(* SpecRun: ExecutorInput::new_from_slack and                              *)
(* Executors::execute_from_slack_message applied to a chat message         *)
(***************************************************************************)
InitRun ==
    /\ DispatcherIdle
    /\ executors \in Registries
    /\ parts \in SeqsUpTo(MessagePieces, MaxPieces)
    /\ message = Concat(parts)
    /\ result = NoResult
    /\ phase = "input"

ApplyNewFromSlack ==
    /\ phase = "input"
    /\ result' = new_from_slack(message)
    /\ phase' = "new_from_slack"
    /\ UNCHANGED <<dispatcher_vars, executors, message, parts>>

ApplyExecuteFromSlackMessage ==
    /\ phase = "input"
    /\ \E sh \in ShellOutcomes :
           result' = execute_from_slack_message(executors, message, sh)
    /\ phase' = "execute_from_slack_message"
    /\ UNCHANGED <<dispatcher_vars, executors, message, parts>>

NextRun == ApplyNewFromSlack \/ ApplyExecuteFromSlackMessage

SpecRun == InitRun /\ [][NextRun]_vars

(***************************************************************************)
(* SpecRender: Executor::prepare_command applied to a payload, the command *)
(* template being that of the one executor of the registry                 *)
(***************************************************************************)
\* the characters payloads are made of
PayloadChars == {"h", "i", " ", ";", "&", "<"}

\* the expression of the default template, and the same without its spaces
Placeholders ==
    {<<"{", "{", " ">> \o S_input \o <<" ", "}", "}">>,
     <<"{", "{">> \o S_input \o <<"}", "}">>}

\* the same expression with three braces
RawPlaceholder == <<"{", "{", "{">> \o S_input \o <<"}", "}", "}">>

\* what stands before and after the expression of a template
TemplateStarts == {S_echo \o <<" ">>}

TemplateEnds == {<<>>, <<" ", "|", " ", "w", "c">>}

\* <<start, expression, end>> of the templates with one payload expression
PlaceholderTemplates == TemplateStarts \X Placeholders \X TemplateEnds

RenderTemplates ==
    {Concat(t) : t \in PlaceholderTemplates}
    \cup {S_echo \o <<" ">> \o RawPlaceholder, BrokenTemplate, S_echo}

InitRender ==
    /\ DispatcherIdle
    /\ executors \in {(S_echo :> t) : t \in RenderTemplates}
    /\ parts = <<>>
    /\ message \in SeqsUpTo(PayloadChars, MaxPayload)
    /\ result = NoResult
    /\ phase = "input"

ApplyPrepareCommand ==
    /\ phase = "input"
    /\ result' = prepare_command(executors[S_echo], message)
    /\ phase' = "prepare_command"
    /\ UNCHANGED <<dispatcher_vars, executors, message, parts>>

NextRender == ApplyPrepareCommand

SpecRender == InitRender /\ [][NextRender]_vars

(***************************************************************************)
(* Frames of the websocket.  A frame is what the three parses of the loop  *)
(* make of it:                                                             *)
(*   ws           "ping"; "text"; "binary" for a frame whose bytes are not *)
(*                UTF-8, so that into_text() is Err; "error" for a read    *)
(*                that returned Err                                        *)
(*   typed        from_str::<SlackWebsocketMessage>: "NormalMessage",      *)
(*                "HelloMessage" or "Err"                                  *)
(*   event        the variant of payload.event of a NormalMessage          *)
(*   json         from_str::<Value> is Ok                                  *)
(*   envelope_id  v["envelope_id"].as_str(), NoId for None                 *)
(*   text         the text field of the event                              *)
(***************************************************************************)
NoId == "<None>"

EnvelopeIds == {"e1", "e2"}

ExecutingEvents == {"AppMention", "ChannelMessageSent"}

OtherEvents == {"ThreadReply", "ChannelMessageDeleted", "ReactionUpdated"}

Frame(ws, typed, event, json, envelope_id, text) ==
    [ws |-> ws, typed |-> typed, event |-> event, json |-> json,
     envelope_id |-> envelope_id, text |-> text]

\* the chat texts of the dispatcher's runs
Fenced(block) == marker \o block \o marker

T_directive(name) == <<"#", " ">> \o S_executor \o <<":", " ">> \o name \o <<"\n">>

T_hi == <<"h", "i">>

ChatTexts ==
    {Fenced(T_directive(S_echo) \o T_hi),
     Fenced(T_directive(<<"a">>) \o T_hi),
     Fenced(T_hi),
     T_hi,
     Fenced(<<"#", " ">> \o S_executor \o <<" ">> \o S_echo \o <<"\n">> \o T_hi),
     Fenced(<<"#", " ", "k", ":", " ", "v", "\n">> \o T_hi)}

Frames ==
    {Frame("ping", "None", "None", FALSE, NoId, <<>>),
     Frame("binary", "None", "None", FALSE, NoId, <<>>),
     Frame("text", "HelloMessage", "None", TRUE, NoId, <<>>),
     Frame("text", "Err", "None", FALSE, NoId, <<>>),
     Frame("text", "Err", "None", TRUE, NoId, <<>>)}
    \cup {Frame("text", "Err", "None", TRUE, id, <<>>) : id \in EnvelopeIds}
    \cup {Frame("text", "NormalMessage", ev, TRUE, id, <<>>) :
             ev \in OtherEvents, id \in EnvelopeIds}
    \cup {Frame("text", "NormalMessage", ev, TRUE, id, t) :
             ev \in ExecutingEvents, id \in EnvelopeIds, t \in ChatTexts}

\* socket.read() returned Err: no frame
ReadErr == Frame("error", "None", "None", FALSE, NoId, <<>>)

\* what the histories keep of a frame
Header(f) ==
    [ws |-> f.ws, typed |-> f.typed, event |-> f.event, json |-> f.json,
     envelope_id |-> f.envelope_id]

(***************************************************************************)
(* Slack::ack_message: one socket.send of {"envelope_id": id}; ok is       *)
(* whether the send succeeded, frame the number of the frame being handled *)
(***************************************************************************)
\* mutant: an envelope_id that was acknowledged before is not acknowledged
\* again
ack_message_once_per_id(sent, frame, envelope_id, ok) ==
    IF \E k \in 1..Len(sent) : sent[k].envelope_id = envelope_id THEN sent
    ELSE Append(sent, [frame |-> frame, envelope_id |-> envelope_id, ok |-> ok])

\* mutant: the newest acknowledgement goes out ahead of those already queued
ack_message_front(sent, frame, envelope_id, ok) ==
    <<[frame |-> frame, envelope_id |-> envelope_id, ok |-> ok]>> \o sent

ack_message(sent, frame, envelope_id, ok) ==
    Append(sent, [frame |-> frame, envelope_id |-> envelope_id, ok |-> ok])

(***************************************************************************)
(* Slack::post_message: the reply is the fixed text, in the thread of the  *)
(* message.  The outcome is the environment's: "ok"; "http_error" (send or *)
(* error_for_status_ref is Err, returned); "panic" (the body is not JSON,  *)
(* or its "ok" is not a boolean: unwrap).                                  *)
(***************************************************************************)
PostOutcomes == {"ok", "http_error", "panic"}

\* the literal of params.insert("text", ..) as the source file holds it: the
\* characters U+00E2, U+0153 and U+2026 after "Ok! "
OkReply == "Ok! <U+00E2><U+0153><U+2026>"

post_message(sent, frame, outcome) ==
    Append(sent, [frame |-> frame, text |-> OkReply, outcome |-> outcome])

(***************************************************************************)
(* Slack::listen_websocket                                                 *)
(***************************************************************************)
Init ==
    /\ pc = "connecting"
    /\ cur = [ws |-> "none"]
    /\ received = <<>>
    /\ acks = <<>>
    /\ execs = <<>>
    /\ posts = <<>>
    /\ executors \in Registries
    /\ message = <<>>
    /\ parts = <<>>
    /\ result = NoResult
    /\ phase = "none"

\* connect(&self.websocket_url)?
Connect ==
    /\ pc = "connecting"
    /\ pc' \in {"read", "closed"}
    /\ UNCHANGED <<cur, received, acks, execs, posts, executors, function_vars>>

\* socket.read() is Ok
ReadFrame ==
    /\ pc = "read"
    /\ Len(received) < MaxFrames
    /\ \E f \in Frames :
          /\ cur' = f
          /\ received' = Append(received, Header(f))
    /\ pc' = "dispatch"
    /\ UNCHANGED <<acks, execs, posts, executors, function_vars>>

\* socket.read().expect("Error reading message") on Err
ReadError ==
    /\ pc = "read"
    /\ Len(received) < MaxFrames
    /\ cur' = ReadErr
    /\ received' = Append(received, Header(ReadErr))
    /\ pc' = "panicked"
    /\ UNCHANGED <<acks, execs, posts, executors, function_vars>>

\* if raw_message.is_ping() { continue; }
SkipPing ==
    /\ pc = "dispatch"
    /\ cur.ws = "ping"
    /\ pc' = "read"
    /\ UNCHANGED <<cur, received, acks, execs, posts, executors, function_vars>>

\* raw_message.into_text().unwrap() on Err
IntoTextPanic ==
    /\ pc = "dispatch"
    /\ cur.ws = "binary"
    /\ pc' = "panicked"
    /\ UNCHANGED <<cur, received, acks, execs, posts, executors, function_vars>>

\* mutant: the result of the send is propagated with `?`
AckUnparsedPropagating ==
    /\ pc = "dispatch"
    /\ cur.ws = "text" /\ cur.typed = "Err"
    /\ cur.json /\ cur.envelope_id # NoId
    /\ \E ok \in BOOLEAN :
          /\ acks' = ack_message(acks, Len(received), cur.envelope_id, ok)
          /\ pc' = IF ok THEN "read" ELSE "closed"
    /\ UNCHANGED <<cur, received, execs, posts, executors, function_vars>>

\* the Err arm of the typed parse, both unwraps passing: ack, the result of
\* the send dropped, and continue
AckUnparsed ==
    /\ pc = "dispatch"
    /\ cur.ws = "text" /\ cur.typed = "Err"
    /\ cur.json /\ cur.envelope_id # NoId
    /\ \E ok \in BOOLEAN :
          acks' = ack_message(acks, Len(received), cur.envelope_id, ok)
    /\ pc' = "read"
    /\ UNCHANGED <<cur, received, execs, posts, executors, function_vars>>

\* the Err arm of the typed parse, from_str::<Value>(..).unwrap() or
\* v["envelope_id"].as_str().unwrap() failing
UnparsedPanic ==
    /\ pc = "dispatch"
    /\ cur.ws = "text" /\ cur.typed = "Err"
    /\ ~cur.json \/ cur.envelope_id = NoId
    /\ pc' = "panicked"
    /\ UNCHANGED <<cur, received, acks, execs, posts, executors, function_vars>>

\* _ => info!("Received: {:?}", message)
LogMessage ==
    /\ pc = "dispatch"
    /\ cur.ws = "text" /\ cur.typed = "HelloMessage"
    /\ pc' = "read"
    /\ UNCHANGED <<cur, received, acks, execs, posts, executors, function_vars>>

\* mutant: the frame is acknowledged as soon as the arm is entered, before
\* the command is run
ReceiveChannelMessageAckFirst ==
    /\ pc = "dispatch"
    /\ cur.ws = "text" /\ cur.typed = "NormalMessage"
    /\ cur.event \in ExecutingEvents
    /\ acks' = ack_message(acks, Len(received), cur.envelope_id, TRUE)
    /\ pc' = "execute"
    /\ UNCHANGED <<cur, received, execs, posts, executors, function_vars>>

\* the AppMention | ChannelMessageSent arm is entered
ReceiveChannelMessage ==
    /\ pc = "dispatch"
    /\ cur.ws = "text" /\ cur.typed = "NormalMessage"
    /\ cur.event \in ExecutingEvents
    /\ pc' = "execute"
    /\ UNCHANGED <<cur, received, acks, execs, posts, executors, function_vars>>

\* let _ = executors.execute_from_slack_message(&text);
Execute ==
    /\ pc = "execute"
    /\ \E sh \in ShellOutcomes :
          LET r == execute_from_slack_message(executors, cur.text, sh)
          IN  /\ execs' = Append(execs, [frame |-> Len(received), result |-> r])
              /\ pc' = IF r.tag = "Panic" THEN "panicked" ELSE "post"
    /\ UNCHANGED <<cur, received, acks, posts, executors, function_vars>>

\* self.post_message(&text, Some(&ts)).await;
PostMessage ==
    /\ pc = "post"
    /\ \E outcome \in PostOutcomes :
          /\ posts' = post_message(posts, Len(received), outcome)
          /\ pc' = IF outcome = "panic" THEN "panicked" ELSE "ack"
    /\ UNCHANGED <<cur, received, acks, execs, executors, function_vars>>

\* Self::ack_message(&mut socket, &envelope_id)?; of the message arm
AckChannelMessage ==
    /\ pc = "ack"
    /\ \E ok \in BOOLEAN :
          /\ acks' = ack_message(acks, Len(received), cur.envelope_id, ok)
          /\ pc' = IF ok THEN "read" ELSE "closed"
    /\ UNCHANGED <<cur, received, execs, posts, executors, function_vars>>

\* mutant: the reaction arm only logs, as the ThreadReply arm does
ReactionUpdatedLogOnly ==
    /\ pc = "dispatch"
    /\ cur.ws = "text" /\ cur.typed = "NormalMessage"
    /\ cur.event = "ReactionUpdated"
    /\ pc' = "read"
    /\ UNCHANGED <<cur, received, acks, execs, posts, executors, function_vars>>

\* the ReactionUpdated arm: log, Self::ack_message(..)?
ReactionUpdated ==
    /\ pc = "dispatch"
    /\ cur.ws = "text" /\ cur.typed = "NormalMessage"
    /\ cur.event = "ReactionUpdated"
    /\ \E ok \in BOOLEAN :
          /\ acks' = ack_message(acks, Len(received), cur.envelope_id, ok)
          /\ pc' = IF ok THEN "read" ELSE "closed"
    /\ UNCHANGED <<cur, received, execs, posts, executors, function_vars>>

\* the ThreadReply arm: do nothing for now
ThreadReply ==
    /\ pc = "dispatch"
    /\ cur.ws = "text" /\ cur.typed = "NormalMessage"
    /\ cur.event = "ThreadReply"
    /\ pc' = "read"
    /\ UNCHANGED <<cur, received, acks, execs, posts, executors, function_vars>>

\* _ => todo!("Unhandled event type: {:?}", &payload.event)
UnhandledEvent ==
    /\ pc = "dispatch"
    /\ cur.ws = "text" /\ cur.typed = "NormalMessage"
    /\ cur.event \notin ExecutingEvents \cup {"ReactionUpdated", "ThreadReply"}
    /\ pc' = "panicked"
    /\ UNCHANGED <<cur, received, acks, execs, posts, executors, function_vars>>

Next ==
    \/ Connect
    \/ ReadFrame
    \/ ReadError
    \/ SkipPing
    \/ IntoTextPanic
    \/ AckUnparsed
    \/ UnparsedPanic
    \/ LogMessage
    \/ ReceiveChannelMessage
    \/ Execute
    \/ PostMessage
    \/ AckChannelMessage
    \/ ReactionUpdated
    \/ ThreadReply
    \/ UnhandledEvent

Spec == Init /\ [][Next]_vars

(***************************************************************************)
(* Properties of the dispatcher (Spec)                                     *)
(***************************************************************************)
\* frame number i has been handled to its end: a later frame was read, or
\* the loop is back at socket.read(), or it has ended
Handled(i) ==
    \/ i < Len(received)
    \/ i = Len(received) /\ pc \in {"read", "panicked", "closed"}

AcksOf(i) == {k \in 1..Len(acks) : acks[k].frame = i}

ExecsOf(i) == {k \in 1..Len(execs) : execs[k].frame = i}

PostsOf(i) == {k \in 1..Len(posts) : posts[k].frame = i}

\* exactly one acknowledgement was sent for frame i, with its envelope_id
AckedOnce(i) ==
    /\ Cardinality(AcksOf(i)) = 1
    /\ \A k \in AcksOf(i) : acks[k].envelope_id = received[i].envelope_id

IsNormal(h) == h.ws = "text" /\ h.typed = "NormalMessage"

IsUnparsedWithId(h) ==
    h.ws = "text" /\ h.typed = "Err" /\ h.json /\ h.envelope_id # NoId

\* C1: every NormalMessage frame that was handled has been acknowledged
\* exactly once, with its envelope_id, whatever its payload event is.
C1_EveryNormalMessageAckedOnce ==
    \A i \in 1..Len(received) :
        (IsNormal(received[i]) /\ Handled(i)) => AckedOnce(i)

\* C2: for every handled mention or channel-message frame a reply was posted
\* and an acknowledgement with its envelope_id was sent, whatever the
\* execution did; and the loop ended while handling such a frame only by
\* returning the error of a failed acknowledgement send.
C2_ReplyAndAckWhateverExecutionDid ==
    \A i \in 1..Len(received) :
        (IsNormal(received[i]) /\ received[i].event \in ExecutingEvents
         /\ Handled(i))
        => /\ PostsOf(i) # {}
           /\ AckedOnce(i)
           /\ (i = Len(received) /\ pc # "read")
                => (pc = "closed" /\ \A k \in AcksOf(i) : ~acks[k].ok)

\* C3: a handled reaction-update frame caused no command execution and no
\* reply, and exactly one acknowledgement, carrying its envelope_id.
C3_ReactionAckedNotExecuted ==
    \A i \in 1..Len(received) :
        (IsNormal(received[i]) /\ received[i].event = "ReactionUpdated"
         /\ Handled(i))
        => /\ ExecsOf(i) = {}
           /\ PostsOf(i) = {}
           /\ AckedOnce(i)

\* a reaction update handled after a message that was executed and answered
C3_Witness ==
    /\ Len(received) = 2
    /\ pc = "read"
    /\ IsNormal(received[2]) /\ received[2].event = "ReactionUpdated"
    /\ received[1].event = "AppMention"
    /\ received[1].envelope_id = received[2].envelope_id
    /\ Len(execs) = 1 /\ execs[1].result.command # NoneStr
    /\ Len(acks) = 2

\* C4: a frame that fails the typed parse but has an envelope_id gets
\* exactly one acknowledgement with that id and no command execution, and the
\* loop is then back at reading the next frame, also when the send failed.
C4_UnparsedFrameAckedLoopContinues ==
    [][(pc = "dispatch" /\ IsUnparsedWithId(cur))
       => /\ pc' = "read"
          /\ \E ok \in BOOLEAN :
                acks' = Append(acks, [frame |-> Len(received),
                                      envelope_id |-> cur.envelope_id,
                                      ok |-> ok])
          /\ execs' = execs
          /\ posts' = posts]_vars

\* an unparsed frame whose acknowledgement failed to send, and the next
\* frame read after it
C4_Witness ==
    /\ Len(received) = 2
    /\ IsUnparsedWithId(received[1])
    /\ Cardinality(AcksOf(1)) = 1
    /\ \A k \in AcksOf(1) :
          ~acks[k].ok /\ acks[k].envelope_id = received[1].envelope_id
    /\ ExecsOf(1) = {}
    /\ received[2].ws = "text"

\* C5: acknowledgements go out in the order their frames were received, one
\* frame at a time: a later acknowledgement belongs to a later frame, and
\* every acknowledgement carries the envelope_id of its frame.
C5_AcksInReceiveOrder ==
    /\ \A k, l \in 1..Len(acks) : k < l => acks[k].frame < acks[l].frame
    /\ \A k \in 1..Len(acks) :
          /\ acks[k].frame \in 1..Len(received)
          /\ acks[k].envelope_id = received[acks[k].frame].envelope_id

\* two frames with different envelope ids, both acknowledged
C5_Witness ==
    /\ Len(acks) = 2
    /\ acks[1].envelope_id # acks[2].envelope_id
    /\ acks[1].frame = 1 /\ acks[2].frame = 2

(***************************************************************************)
(* Properties of parse_code_block (SpecParse)                              *)
(***************************************************************************)
\* "# executor: "
DirectivePrefix == <<"#", " ">> \o S_executor \o <<":", " ">>

\* a directive line: its first character that is not whitespace is #
IsDirectiveLine(line) == StartsWith(Trim(line), <<"#">>)

HasColon(line) == \E i \in 1..Len(line) : line[i] = ":"

\* the trimmed lines of ls that are no directive lines, one after the other
RECURSIVE PayloadOf(_)
PayloadOf(ls) ==
    IF ls = <<>> THEN <<>>
    ELSE (IF IsDirectiveLine(Head(ls)) THEN <<>> ELSE Trim(Head(ls)))
         \o PayloadOf(Tail(ls))

\* the block is "# executor: X" followed by non-empty lines, and was parsed
ExecutorBlockParsed ==
    /\ phase = "parse_code_block"
    /\ Len(parts) >= 1
    /\ StartsWith(parts[1], DirectivePrefix)
    /\ \A i \in 2..Len(parts) : parts[i] # <<>>

\* the X of the first line
DirectiveX == SliceFrom(parts[1], Len(DirectivePrefix))

\* C6 as stated: every block "# executor: X" followed by arbitrary non-empty
\* lines parses to the name X (trimmed) and the payload made of the trimmed
\* non-directive lines.  The blocks on which the parser aborts
\* (unimplemented!) are set aside: the statement fails without them.
C6_AnyExecutorBlockParses ==
    (ExecutorBlockParsed /\ result.tag # "Panic")
    => result = OkInput(Trim(DirectiveX), PayloadOf(Tail(parts)))

\* C6 amended: every block "# executor: X", X without a colon, followed by
\* non-empty lines none of which is a directive line, parses to the name X
\* (trimmed) and the payload that is the trimmed lines one after the other,
\* nothing between them.
C6_ExecutorBlockParses ==
    (/\ ExecutorBlockParsed
     /\ ~HasColon(DirectiveX)
     /\ \A i \in 2..Len(parts) : ~IsDirectiveLine(parts[i]))
    => result = OkInput(Trim(DirectiveX), PayloadOf(Tail(parts)))

\* a directive with a name to trim and two different payload lines, one of
\* them to trim
C6_Witness ==
    /\ ExecutorBlockParsed
    /\ ~HasColon(DirectiveX)
    /\ DirectiveX # Trim(DirectiveX)
    /\ Len(parts) = 3
    /\ ~IsDirectiveLine(parts[2]) /\ ~IsDirectiveLine(parts[3])
    /\ parts[2] # Trim(parts[2])
    /\ parts[2] # parts[3]
    /\ result.tag = "Ok"
    /\ result.input = Trim(parts[2]) \o parts[3]

\* the directive lines of the block that have no colon
ColonlessDirectives ==
    {i \in 1..Len(parts) : IsDirectiveLine(parts[i]) /\ ~HasColon(parts[i])}

\* a line without its leading # characters and the whitespace around it
NamedLine(line) == Trim(TrimStartMatches(Trim(line), "#"))

\* C7: parsing a block with a directive line that has no colon fails with
\* SplitFailure carrying such a line, its # removed and trimmed; no request
\* is produced.
C7_ColonlessDirectiveIsSplitFailure ==
    (phase = "parse_code_block" /\ ColonlessDirectives # {})
    => /\ result.tag = "SplitFailure"
       /\ \E i \in ColonlessDirectives : result.err = NamedLine(parts[i])

(***************************************************************************)
(* Properties of new_from_slack and execute_from_slack_message (SpecRun)   *)
(***************************************************************************)
\* a marker starts at the 1-based position i of m
MarkerAt(m, i) ==
    i >= 1 /\ i + 2 <= Len(m) /\ m[i] = BQ /\ m[i + 1] = BQ /\ m[i + 2] = BQ

\* the first marker of m is at i, and j is the next marker after it
FencedAt(m, i, j) ==
    /\ MarkerAt(m, i)
    /\ \A k \in 1..(i - 1) : ~MarkerAt(m, k)
    /\ j >= i + 3
    /\ MarkerAt(m, j)
    /\ \A k \in (i + 3)..(j - 1) : ~MarkerAt(m, k)

HasFence(m) == \E i, j \in 1..Len(m) : FencedAt(m, i, j)

\* C8: new_from_slack parses exactly the text between the first marker and
\* the next marker after it; without a marker, or without a second one, it
\* fails with ExtractCodeBlockError and parse_code_block is not reached.
C8_BlockIsBetweenFirstTwoMarkers ==
    phase = "new_from_slack"
    => /\ \A i, j \in 1..Len(message) :
             FencedAt(message, i, j)
             => result = parse_code_block(SubSeq(message, i + 3, j - 1))
       /\ ~HasFence(message)
            => (result = ExtractCodeBlockError(message) /\ ~result.parsed)

\* a message with three markers and a block between the first two: the
\* block ends at the second
C8_Witness ==
    /\ phase = "new_from_slack"
    /\ \E i, j, k \in 1..Len(message) :
          /\ FencedAt(message, i, j)
          /\ j > i + 3
          /\ k >= j + 3 /\ MarkerAt(message, k)
    /\ result.tag = "Ok"
    /\ result.name = S_echo

\* C9: with an empty registry execute_from_slack_message fails with
\* NoAvailableExecutors whatever the message is, before any parsing and
\* without running a command.
C9_EmptyRegistryNoAvailableExecutors ==
    (phase = "execute_from_slack_message" /\ DOMAIN executors = {})
    => result = RunResult("NoAvailableExecutors", <<>>, FALSE, "None", NoneStr)

\* the empty registry and a message whose parse would abort on a directive
\* with an unknown key
C9_Witness ==
    /\ phase = "execute_from_slack_message"
    /\ DOMAIN executors = {}
    /\ new_from_slack(message).tag = "Panic"
    /\ result.tag = "NoAvailableExecutors"

\* C10: with a non-empty registry, a message that parses to a name that is
\* not a key of the registry (the empty name included) fails with
\* NoSuchExecutors carrying that name, and no command is run.
C10_UnknownNameNoSuchExecutors ==
    (/\ phase = "execute_from_slack_message"
     /\ DOMAIN executors # {}
     /\ new_from_slack(message).tag = "Ok"
     /\ new_from_slack(message).name \notin DOMAIN executors)
    => /\ result.tag = "NoSuchExecutors"
       /\ result.err = new_from_slack(message).name
       /\ result.executed = "None"
       /\ result.command = NoneStr

\* the default registry and a block without an executor directive: the
\* name is empty
C10_Witness ==
    /\ phase = "execute_from_slack_message"
    /\ executors = DefaultExecutors
    /\ new_from_slack(message).tag = "Ok"
    /\ new_from_slack(message).name = <<>>
    /\ new_from_slack(message).input # <<>>
    /\ result.tag = "NoSuchExecutors"
    /\ result.err = <<>>

\* C18: when the message parses to a name of the registry whose template
\* fails to render, the call returns the template error to its caller and no
\* shell command is run.
C18_TemplateErrorPropagated ==
    LET input == new_from_slack(message)
    IN  (/\ phase = "execute_from_slack_message"
         /\ input.tag = "Ok"
         /\ input.name \in DOMAIN executors
         /\ prepare_command(executors[input.name], input.input).tag
                = "TemplateError")
        => /\ result.tag = "TemplateError"
           /\ result.command = NoneStr

(***************************************************************************)
(* Properties of prepare_command (SpecRender)                              *)
(***************************************************************************)
\* C11: rendering a template that contains the one payload expression
\* yields the template text with the expression replaced by the payload
\* itself, no character of it altered, escaped or dropped.
C11_PlaceholderReplacedVerbatim ==
    phase = "prepare_command"
    => \A t \in PlaceholderTemplates :
          executors[S_echo] = Concat(t)
          => result = RenderOk(t[1] \o message \o t[3])

(***************************************************************************)
(* Further properties of the dispatcher (Spec)                             *)
(***************************************************************************)
\* frame number i was handled to its end and the loop went on
Completed(i) ==
    \/ i < Len(received)
    \/ i = Len(received) /\ pc = "read"

\* no frame has more than one acknowledgement, every acknowledgement carries
\* the envelope_id of its frame, and of two equal frames that were both
\* handled to the end the later has as many acknowledgements as the earlier
NoAckState ==
    /\ \A i \in 1..Len(received) :
          /\ Cardinality(AcksOf(i)) <= 1
          /\ \A k \in AcksOf(i) : acks[k].envelope_id = received[i].envelope_id
    /\ \A i, j \in 1..Len(received) :
          (i < j /\ received[i] = received[j] /\ Completed(j))
          => Cardinality(AcksOf(i)) = Cardinality(AcksOf(j))

\* C12: the dispatcher keeps no acknowledgement state and never double-fires:
\* at most one acknowledgement per frame read, carrying the envelope_id of
\* that frame; a frame whose envelope_id was acknowledged before is
\* acknowledged as the first was; and no step changes the registry.
C12_NoAckStateRegistryUnchanged ==
    []NoAckState /\ [][executors' = executors]_vars

\* the same reaction frame read twice and acknowledged twice, the registry
\* not being empty
C12_Witness ==
    /\ Len(received) = 2
    /\ received[1] = received[2]
    /\ received[1].event = "ReactionUpdated"
    /\ pc = "read"
    /\ Len(acks) = 2
    /\ acks[1].envelope_id = acks[2].envelope_id
    /\ executors = DefaultExecutors

\* C13: a ThreadReply frame that was handled has exactly one acknowledgement,
\* with its own envelope_id, and caused no command execution and no reply.
C13_ThreadReplyAckedNothingElse ==
    \A i \in 1..Len(received) :
        (IsNormal(received[i]) /\ received[i].event = "ThreadReply" /\ Handled(i))
        => /\ AckedOnce(i)
           /\ ExecsOf(i) = {}
           /\ PostsOf(i) = {}

\* C14: a NormalMessage frame whose event is none of mention, channel
\* message, reaction and thread reply (a deleted message) that was handled
\* is acknowledged once, executes no command, and leaves the dispatcher
\* connected and reading the next frame.
C14_OtherEventAckedLoopContinues ==
    \A i \in 1..Len(received) :
        (IsNormal(received[i]) /\ received[i].event = "ChannelMessageDeleted"
            /\ Handled(i))
        => /\ AckedOnce(i)
           /\ ExecsOf(i) = {}
           /\ (i = Len(received) => pc = "read")

\* C15: a text frame that fails the typed parse and was handled leaves the
\* dispatcher connected and reading the next frame, also when it is not JSON
\* at all or has no envelope_id.
C15_MalformedFrameLoopContinues ==
    \A i \in 1..Len(received) :
        (received[i].ws = "text" /\ received[i].typed = "Err" /\ Handled(i))
        => (i = Len(received) => pc = "read")

\* the call ran into a directive or payload error: no code block, a directive
\* line without ':', or a directive key that is not recognized
DirectiveError(r) ==
    \/ r.tag \in {"ExtractCodeBlockError", "SplitFailure"}
    \/ r.tag = "Panic" /\ r.executed = "None"

\* no panic happened in post_message while frame i was handled
PostReturned(i) == \A k \in PostsOf(i) : posts[k].outcome # "panic"

\* C16: every directive or payload error met while a mention or channel
\* message frame is handled is recovered locally: no command is executed,
\* the dispatcher does not terminate on it, and the frame is still
\* acknowledged.
C16_DirectiveErrorRecovered ==
    \A e \in 1..Len(execs) :
        DirectiveError(execs[e].result)
        => /\ execs[e].result.command = NoneStr
           /\ execs[e].result.tag # "Panic"
           /\ (Handled(execs[e].frame) /\ PostReturned(execs[e].frame))
                => AckedOnce(execs[e].frame)

\* C17: when the shell command of a call exited non-zero or could not be
\* spawned, the call returned to the dispatcher (it did not abort), and the
\* dispatcher posted the reply and acknowledged the frame.
C17_ShellFailureReturnedAsValue ==
    \A e \in 1..Len(execs) :
        execs[e].result.executed \in {"nonzero", "spawn_failed"}
        => /\ execs[e].result.tag # "Panic"
           /\ (Handled(execs[e].frame) /\ PostReturned(execs[e].frame))
                => (PostsOf(execs[e].frame) # {} /\ AckedOnce(execs[e].frame))

IsExecuting(h) == IsNormal(h) /\ h.event \in ExecutingEvents

\* C19: a mention or channel message frame is handled step by step: the
\* command is run, then the reply posted, then the acknowledgement sent, each
\* at most once; while the command or the reply is still to come nothing of
\* a later step exists for the frame; histories are in frame order; and a
\* further frame was read only after all three steps of the earlier one.
C19_HandlingSequential ==
    /\ \A i \in 1..Len(received) :
          IsExecuting(received[i])
          => /\ Cardinality(ExecsOf(i)) <= 1
             /\ Cardinality(PostsOf(i)) <= 1
             /\ Cardinality(AcksOf(i)) <= 1
             /\ (PostsOf(i) # {} => ExecsOf(i) # {})
             /\ (AcksOf(i) # {} => PostsOf(i) # {})
             /\ (i < Len(received)
                  => (ExecsOf(i) # {} /\ PostsOf(i) # {} /\ AcksOf(i) # {}))
    /\ (pc \in {"dispatch", "execute"}
         => (ExecsOf(Len(received)) = {} /\ PostsOf(Len(received)) = {}
             /\ AcksOf(Len(received)) = {}))
    /\ (pc = "post"
         => (ExecsOf(Len(received)) # {} /\ PostsOf(Len(received)) = {}
             /\ AcksOf(Len(received)) = {}))
    /\ (pc = "ack"
         => (PostsOf(Len(received)) # {} /\ AcksOf(Len(received)) = {}))
    /\ \A k \in 1..Len(execs) : \A l \in 1..Len(execs) :
          k < l => execs[k].frame < execs[l].frame
    /\ \A k \in 1..Len(acks) : acks[k].frame <= Len(received)

\* two mention frames handled to the end one after the other, each with its
\* command run, its reply posted and its acknowledgement sent
C19_Witness ==
    /\ Len(received) = 2
    /\ IsExecuting(received[1]) /\ IsExecuting(received[2])
    /\ pc = "read"
    /\ Len(execs) = 2 /\ Len(posts) = 2 /\ Len(acks) = 2
    /\ execs[1].result.command # NoneStr
    /\ execs[2].result.command # NoneStr
    /\ acks[1].frame = 1 /\ acks[2].frame = 2

\* the errors execute_from_slack_message returns before any command is run
ErrorReturns ==
    {"ExtractCodeBlockError", "SplitFailure", "NoAvailableExecutors",
     "NoSuchExecutors"}

\* C20: when the call failed with no code block, a bad directive, no
\* executors or an unknown executor, no reply is posted for the frame.  (Of
\* the claim's other half, that the reply of a successful run carries the
\* command's output, post_message leaves nothing to state: its text is
\* OkReply whatever it is handed.)
C20_NoReplyOnErrorPaths ==
    \A e \in 1..Len(execs) :
        execs[e].result.tag \in ErrorReturns
        => PostsOf(execs[e].frame) = {}

====
